---- MODULE Spec2Model ----
(***************************************************************************)
(* A model of primeorder/src/field.rs: the Montgomery-form field element   *)
(* generated by impl_mont_field_element!, its arithmetic trait impls, and  *)
(* the Bernstein-Yang inversion of impl_bernstein_yang_invert!.            *)
(*                                                                         *)
(* The macros are instantiated here for a small field: words of WordBits   *)
(* bits, NLimbs limbs per integer, bytes of ByteBits bits.  A field        *)
(* element $fe(u) is modelled by the integer value u of the $uint it       *)
(* wraps (its Montgomery representation); as_words/from_words convert to   *)
(* and from little-endian limb sequences, as in the source.                *)
(***************************************************************************)
EXTENDS Integers, Sequences, FiniteSets, TLC

(***************************************************************************)
(* Instantiation parameters of the macros.                                 *)
(***************************************************************************)
WordBits == 4
NLimbs == 2
ByteBits == 4
FieldBytesSize == 2
Modulus == 103
ModulusBits == 7

Pow2(n) == 2 ^ n

WordRadix == Pow2(WordBits)
ByteRadix == Pow2(ByteBits)
UintLimit == Pow2(WordBits * NLimbs)

Uints == 0 .. (UintLimit - 1)
Residues == 0 .. (Modulus - 1)

(***************************************************************************)
(* $uint: as_words / from_words (little-endian limbs), and the two's       *)
(* complement reading the divstep primitives use for f and g.              *)
(***************************************************************************)
as_words(u) == [k \in 1 .. NLimbs |-> (u \div Pow2(WordBits * (k - 1))) % WordRadix]

RECURSIVE EvalFrom(_, _)
EvalFrom(ws, k) ==
    IF k > Len(ws) THEN 0 ELSE ws[k] + WordRadix * EvalFrom(ws, k + 1)

from_words(ws) == EvalFrom(ws, 1)

twos_complement_eval(ws) ==
    LET e == from_words(ws)
        lim == Pow2(WordBits * Len(ws))
    IN  IF 2 * e >= lim THEN e - lim ELSE e

twos_complement_words(z, len) ==
    [k \in 1 .. len |-> ((z % Pow2(WordBits * len)) \div Pow2(WordBits * (k - 1))) % WordRadix]

(***************************************************************************)
(* The per-modulus primitives the macros take as arguments ($to_mont,      *)
(* $from_mont, $add, $sub, $mul, $neg, $square).  They are supplied by the *)
(* curve crates; here they are word-by-word Montgomery arithmetic with     *)
(* R = 2^(WordBits * NLimbs).                                              *)
(***************************************************************************)
MontNegInv == CHOOSE k \in Uints : (Modulus * k) % UintLimit = UintLimit - 1

MontR2 == (UintLimit * UintLimit) % Modulus

redc(t) ==
    LET q == ((t % UintLimit) * MontNegInv) % UintLimit
        s == (t + q * Modulus) \div UintLimit
    IN  IF s >= Modulus THEN s - Modulus ELSE s

prim_to_mont(w) == as_words(redc(from_words(w) * MontR2))

prim_from_mont(w) == as_words(redc(from_words(w)))

prim_add(x, y) ==
    LET s == from_words(x) + from_words(y)
    IN  as_words(IF s - Modulus < 0 THEN s % UintLimit ELSE (s - Modulus) % UintLimit)

prim_sub(x, y) ==
    LET s == from_words(x) - from_words(y)
    IN  as_words(IF s < 0 THEN (s + Modulus) % UintLimit ELSE s)

prim_mul(x, y) == as_words(redc(from_words(x) * from_words(y)))

prim_neg(x) ==
    LET s == 0 - from_words(x)
    IN  as_words(IF s < 0 THEN (s + Modulus) % UintLimit ELSE s)

prim_square(x) == as_words(redc(from_words(x) * from_words(x)))

(***************************************************************************)
(* impl $fe: constants, conversions and arithmetic.                        *)
(***************************************************************************)
from_uint_unchecked(w) == from_words(prim_to_mont(as_words(w)))

ZERO == 0

ONE == from_uint_unchecked(1)

to_canonical(x) == from_words(prim_from_mont(as_words(x)))

add(x, rhs) == from_words(prim_add(as_words(x), as_words(rhs)))

double(x) == add(x, x)

sub(x, rhs) == from_words(prim_sub(as_words(x), as_words(rhs)))

multiply(x, rhs) == from_words(prim_mul(as_words(x), as_words(rhs)))

neg(x) == from_words(prim_neg(as_words(x)))

square(x) == from_words(prim_square(as_words(x)))

(* The field elements: Montgomery forms of the residues. *)
Elements == {from_uint_unchecked(u) : u \in Residues}

(***************************************************************************)
(* FieldBytesEncoding: big-endian, fixed width of FieldBytesSize bytes.    *)
(***************************************************************************)
Bytes == 0 .. (ByteRadix - 1)

ByteStrings == [1 .. FieldBytesSize -> Bytes]

RECURSIVE DecodeBE(_, _)
DecodeBE(bs, n) ==
    IF n = 0 THEN 0 ELSE bs[n] + ByteRadix * DecodeBE(bs, n - 1)

decode_field_bytes(repr) == DecodeBE(repr, Len(repr))

encode_field_bytes(u) ==
    [k \in 1 .. FieldBytesSize |->
        (u \div Pow2(ByteBits * (FieldBytesSize - k))) % ByteRadix]

(***************************************************************************)
(* subtle::CtOption is a value together with an is_some flag;              *)
(* Option::from(CtOption) keeps the value only when the flag is set.       *)
(***************************************************************************)
CtOption(value, is_some) == [value |-> value, is_some |-> is_some]

None == [some |-> FALSE]

Some(value) == [some |-> TRUE, value |-> value]

OptionFrom(ct) == IF ct.is_some THEN Some(ct.value) ELSE None

Err(e) == [err |-> e]

Error == Err("Error")

Ok(value) == [ok |-> value]

ok_or(opt, e) == IF opt.some THEN Ok(opt.value) ELSE e

ct_lt(x, y) == x < y

(* As from_uint, with the range check admitting uint == modulus. *)
from_uint_Le(uint) ==
    LET is_some == uint <= Modulus
    IN  CtOption(from_uint_unchecked(uint), is_some)

from_uint(uint) ==
    LET is_some == ct_lt(uint, Modulus)
    IN  CtOption(from_uint_unchecked(uint), is_some)

from_bytes(repr) == from_uint(decode_field_bytes(repr))

(* As to_bytes, encoding the stored Montgomery representation. *)
to_bytes_NoCanonical(x) == encode_field_bytes(x)

to_bytes(x) == encode_field_bytes(to_canonical(x))

(***************************************************************************)
(* The constructors from primitive integers: from_u64 and From<u32>,       *)
(* From<u64>, From<u128>.  <$uint>::from_u64 and <$uint>::from zero-extend *)
(* the integer into the limbs of a $uint; no range check follows.          *)
(***************************************************************************)
uint_from_u64(w) == from_words([k \in 1 .. NLimbs |-> (w \div (WordRadix ^ (k - 1))) % WordRadix])

uint_from(n) == from_words([k \in 1 .. NLimbs |-> (n \div (WordRadix ^ (k - 1))) % WordRadix])

(* As from_u64, wrapping the integer without converting it to Montgomery form. *)
from_u64_Raw(w) == uint_from_u64(w)

from_u64(w) == from_uint_unchecked(uint_from_u64(w))

From_u32(n) == from_uint_unchecked(uint_from(n))

From_u64(n) == from_uint_unchecked(uint_from(n))

From_u128(n) == from_uint_unchecked(uint_from(n))

(* ConditionallySelectable: <$uint>::conditional_select picks b when choice is 1. *)
conditional_select(x, y, choice) == IF choice = 1 THEN y ELSE x

(***************************************************************************)
(* pow_vartime.  A u64 exponent word is modelled by the set of positions   *)
(* of its 1 bits, so that (exp[i] >> j) & 1 == 1 reads j \in exp[i]; exp   *)
(* is 1-indexed here, 0-indexed in the source.                             *)
(***************************************************************************)
U64Bits == 64

(* The body of the inner loop, after j -= 1: square, then multiply on a 1 bit. *)
(* As pow_bit, multiplying before squaring. *)
pow_bit_MulThenSquare(res1, x, word, j1) ==
    square(IF j1 \in word THEN multiply(res1, x) ELSE res1)

pow_bit(res1, x, word, j1) ==
    LET sq == square(res1)
    IN  IF j1 \in word THEN multiply(sq, x) ELSE sq

(***************************************************************************)
(* core::ops impls (impl_field_op!) and the Sum / Product impls.           *)
(* A reference &$fe is modelled as a record holding the referent.          *)
(***************************************************************************)
as_ref(x) == as_words(x)

Add_add(x, rhs) == from_words(prim_add(as_ref(x), as_ref(rhs)))

Sub_sub(x, rhs) == from_words(prim_sub(as_ref(x), as_ref(rhs)))

Mul_mul(x, rhs) == from_words(prim_mul(as_ref(x), as_ref(rhs)))

Neg_neg(x) == from_words(prim_neg(as_ref(x)))

(* The function item handed to reduce, named by its path. *)
call_fn(fn, x, y) ==
    IF fn = "core::ops::Add::add" THEN Add_add(x, y) ELSE Mul_mul(x, y)

RECURSIVE reduce_from(_, _, _, _)
reduce_from(iter, fn, acc, k) ==
    IF k > Len(iter) THEN acc ELSE reduce_from(iter, fn, call_fn(fn, acc, iter[k]), k + 1)

iter_reduce(iter, fn) ==
    IF Len(iter) = 0 THEN None ELSE Some(reduce_from(iter, fn, iter[1], 2))

unwrap_or(opt, default) == IF opt.some THEN opt.value ELSE default

Ref(x) == [deref |-> x]

iter_copied(iter) == [k \in 1 .. Len(iter) |-> iter[k].deref]

(* As Sum_sum, falling back to ONE on an empty iterator. *)
Sum_sum_UnwrapOne(iter) == unwrap_or(iter_reduce(iter, "core::ops::Add::add"), ONE)

Sum_sum(iter) == unwrap_or(iter_reduce(iter, "core::ops::Add::add"), ZERO)

Sum_sum_ref(iter) == Sum_sum(iter_copied(iter))

Product_product(iter) == unwrap_or(iter_reduce(iter, "core::ops::Mul::mul"), ONE)

Product_product_ref(iter) == Product_product(iter_copied(iter))

(***************************************************************************)
(* Bernstein-Yang building blocks ($msat, $divstep, $selectznz,            *)
(* $divstep_precomp), supplied per modulus.  f and g are two's complement  *)
(* integers of NLimbs + 1 limbs; v and r are residues in Montgomery form.  *)
(* d is a machine word read as a signed integer; it stays far below the    *)
(* width of a real word and is kept as an integer.  Each divstep doubles   *)
(* v or r, so divstep_precomp is the Montgomery form of 2^(-ITERATIONS),   *)
(* that is ((modulus + 1) / 2)^ITERATIONS.                                 *)
(***************************************************************************)
ITERATIONS == (49 * ModulusBits + 57) \div 17

msat == twos_complement_words(Modulus, NLimbs + 1)

divstep(d1, f1, g1, v1, r1) ==
    LET fz == twos_complement_eval(f1)
        gz == twos_complement_eval(g1)
    IN  IF 0 < d1 /\ gz % 2 = 1
        THEN << 1 - d1,
                g1,
                twos_complement_words((gz - fz) \div 2, NLimbs + 1),
                prim_add(r1, r1),
                prim_sub(r1, v1) >>
        ELSE << 1 + d1,
                f1,
                twos_complement_words((gz + (gz % 2) * fz) \div 2, NLimbs + 1),
                prim_add(v1, v1),
                IF gz % 2 = 1 THEN prim_add(r1, v1) ELSE r1 >>

selectznz(c, x, y) == IF c = 0 THEN x ELSE y

RECURSIVE ModPow(_, _)
ModPow(b, e) == IF e = 0 THEN 1 ELSE (b * ModPow(b, e - 1)) % Modulus

divstep_precomp == prim_to_mont(as_words(ModPow((Modulus + 1) \div 2, ITERATIONS)))

(***************************************************************************)
(* Bounds of the model and the input sets the operations are called with.  *)
(***************************************************************************)
MaxSliceLen == 3
MaxExpLen == 2
MaxSeqLen == 3
MaxDraws == 3

SeqsUpTo(S, n) == UNION {[1 .. k -> S] : k \in 0 .. n}

(* Byte slices of every length up to MaxSliceLen, around the modulus. *)
SliceBytes == {0, 6, 7, 15}
Slices == SeqsUpTo(SliceBytes, MaxSliceLen)

(* Exponent words: 0, 1, 2 and 2^63 + 2^5 + 1. *)
ExpWords == {{}, {0}, {1}, {0, 5, 63}}
Exponents == SeqsUpTo(ExpWords, MaxExpLen)
PowBases == {from_uint_unchecked(u) : u \in {0, 1, 2, 3, 102}}

FoldElems == {from_uint_unchecked(u) : u \in {0, 1, 2, 52, 102}}
FoldSeqs == SeqsUpTo(FoldElems, MaxSeqLen)
FoldRefSeqs == SeqsUpTo({Ref(x) : x \in FoldElems}, MaxSeqLen)

(* What one try_fill_bytes call can produce: a buffer or the source's error. *)
RngErrors == {"E1", "E2"}
RngFills == {encode_field_bytes(u) : u \in {0, 102, Modulus, UintLimit - 1}}
RngOutcomes == {[fill |-> b] : b \in RngFills} \cup {[error |-> e] : e \in RngErrors}
RngStreams == SeqsUpTo(RngOutcomes, MaxDraws) \ {<< >>}

(* Inputs of the operations applied to the element a caller holds.  The    *)
(* primitive integers range over every value a $uint holds, so integers at *)
(* and above the modulus occur.                                            *)
PrimitiveInts == Uints
Choices == {0, 1}
HeldExponents == {<< >>, << {1} >>, << {0, 5, 63} >>}
HeldStreams == {s \in RngStreams : Len(s) <= 2}
Operands == {from_u64(w) : w \in PrimitiveInts}
HeldSeqs(x) == SeqsUpTo({x, from_u64(Modulus + 1), from_u64(UintLimit - 1)}, MaxSeqLen)

(***************************************************************************)
(* State.  One operation runs at a time: op names it, pc is the position   *)
(* inside it, arg its input and ret its return value.  a, d, f, g, v, r, i *)
(* are the locals of impl_bernstein_yang_invert!; rng and bytes those of   *)
(* try_from_rng; res, i, j those of pow_vartime (i is also the loop        *)
(* counter of the inversion).  ndivsteps, ndraws and ncalls count the      *)
(* calls made to $divstep, rng.try_fill_bytes and from_bytes by the        *)
(* running operation.  elem is the field element a caller holds between    *)
(* operations: the value it last obtained through the public interface.    *)
(***************************************************************************)
VARIABLES op, pc, arg, ret, a, d, f, g, v, r, i, j, res, ndivsteps, rng, bytes, ndraws, ncalls, elem

vars == << op, pc, arg, ret, a, d, f, g, v, r, i, j, res, ndivsteps, rng, bytes, ndraws, ncalls, elem >>

invertVars == << a, d, f, g, v, r, ndivsteps >>

powVars == << j, res >>

rngVars == << rng, bytes, ndraws >>

NoArg == [none |-> TRUE]

Pending == [pending |-> TRUE]

Init ==
    /\ op = "idle"
    /\ pc = "idle"
    /\ arg = NoArg
    /\ ret = Pending
    /\ a = << >>
    /\ d = 0
    /\ f = << >>
    /\ g = << >>
    /\ v = << >>
    /\ r = << >>
    /\ i = 0
    /\ j = 0
    /\ res = 0
    /\ ndivsteps = 0
    /\ rng = << >>
    /\ bytes = << >>
    /\ ndraws = 0
    /\ ncalls = 0
    /\ elem = ZERO

(* A call of a pure method: the whole body runs in one step. *)
CallFromUint ==
    /\ op = "idle"
    /\ \E uint \in Uints :
        /\ op' = "from_uint"
        /\ pc' = "done"
        /\ arg' = [uint |-> uint]
        /\ ret' = [ct |-> from_uint(uint)]
        /\ UNCHANGED << elem, invertVars, i, powVars, rngVars, ncalls >>

CallFromBytes ==
    /\ op = "idle"
    /\ \E repr \in ByteStrings :
        /\ op' = "from_bytes"
        /\ pc' = "done"
        /\ arg' = [repr |-> repr]
        /\ ret' = [ct |-> from_bytes(repr)]
        /\ UNCHANGED << elem, invertVars, i, powVars, rngVars, ncalls >>

CallToBytes ==
    /\ op = "idle"
    /\ \E x \in Elements :
        /\ op' = "to_bytes"
        /\ pc' = "done"
        /\ arg' = [self |-> x]
        /\ ret' = [bytes |-> to_bytes(x)]
        /\ UNCHANGED << elem, invertVars, i, powVars, rngVars, ncalls >>

CallSum ==
    /\ op = "idle"
    /\ \E iter \in FoldSeqs :
        /\ op' = "sum"
        /\ pc' = "done"
        /\ arg' = [iter |-> iter]
        /\ ret' = [fe |-> Sum_sum(iter)]
        /\ UNCHANGED << elem, invertVars, i, powVars, rngVars, ncalls >>

CallSumRef ==
    /\ op = "idle"
    /\ \E iter \in FoldRefSeqs :
        /\ op' = "sum_ref"
        /\ pc' = "done"
        /\ arg' = [iter |-> iter]
        /\ ret' = [fe |-> Sum_sum_ref(iter)]
        /\ UNCHANGED << elem, invertVars, i, powVars, rngVars, ncalls >>

CallProduct ==
    /\ op = "idle"
    /\ \E iter \in FoldSeqs :
        /\ op' = "product"
        /\ pc' = "done"
        /\ arg' = [iter |-> iter]
        /\ ret' = [fe |-> Product_product(iter)]
        /\ UNCHANGED << elem, invertVars, i, powVars, rngVars, ncalls >>

CallProductRef ==
    /\ op = "idle"
    /\ \E iter \in FoldRefSeqs :
        /\ op' = "product_ref"
        /\ pc' = "done"
        /\ arg' = [iter |-> iter]
        /\ ret' = [fe |-> Product_product_ref(iter)]
        /\ UNCHANGED << elem, invertVars, i, powVars, rngVars, ncalls >>

(***************************************************************************)
(* from_slice: the length check returns early; otherwise the slice is      *)
(* turned into an array (try_from(..).unwrap() panics on a wrong length)   *)
(* and handed to from_bytes.                                               *)
(***************************************************************************)
Panic == [panic |-> TRUE]

Array_try_from(slice) ==
    IF Len(slice) = FieldBytesSize THEN Ok(slice) ELSE Error

(* As from_slice, rejecting only slices that are too short. *)
from_slice_LenLt(slice) ==
    IF Len(slice) < FieldBytesSize
    THEN [ret |-> Error, ncalls |-> 0]
    ELSE LET arr == Array_try_from(slice)
         IN  IF "err" \in DOMAIN arr
             THEN [ret |-> Panic, ncalls |-> 0]
             ELSE [ret |-> ok_or(OptionFrom(from_bytes(arr.ok)), Error), ncalls |-> 1]

(* The return value, and the number of from_bytes calls made. *)
from_slice(slice) ==
    IF Len(slice) # FieldBytesSize
    THEN [ret |-> Error, ncalls |-> 0]
    ELSE LET arr == Array_try_from(slice)
         IN  IF "err" \in DOMAIN arr
             THEN [ret |-> Panic, ncalls |-> 0]
             ELSE [ret |-> ok_or(OptionFrom(from_bytes(arr.ok)), Error), ncalls |-> 1]

FromSlice ==
    /\ op = "idle"
    /\ \E slice \in Slices :
        /\ op' = "from_slice"
        /\ pc' = "done"
        /\ arg' = [slice |-> slice]
        /\ ret' = from_slice(slice).ret
        /\ ncalls' = ncalls + from_slice(slice).ncalls
        /\ UNCHANGED << elem, invertVars, i, powVars, rngVars >>

(***************************************************************************)
(* Field::try_from_rng: one action per pass of the loop.                   *)
(***************************************************************************)
TryFromRngBegin ==
    /\ op = "idle"
    /\ \E source \in RngStreams :
        /\ op' = "try_from_rng"
        /\ pc' = "loop"
        /\ arg' = [rng |-> source]
        /\ rng' = source
        /\ bytes' = [k \in 1 .. FieldBytesSize |-> 0]
        /\ UNCHANGED << elem, ret, invertVars, i, powVars, ndraws, ncalls >>

(* As loop_pass, returning the decoded element whatever the range check said. *)
loop_pass_AcceptAny(outcome) ==
    IF "error" \in DOMAIN outcome
    THEN [returns |-> TRUE, ret |-> Err(outcome.error), ncalls |-> 0]
    ELSE [returns |-> TRUE, ret |-> Ok(from_bytes(outcome.fill).value), ncalls |-> 1]

(* As loop_pass, drawing again when the source fails. *)
loop_pass_RetryOnError(outcome) ==
    IF "error" \in DOMAIN outcome
    THEN [returns |-> FALSE, ret |-> Pending, ncalls |-> 0]
    ELSE LET opt == OptionFrom(from_bytes(outcome.fill))
         IN  IF opt.some
             THEN [returns |-> TRUE, ret |-> Ok(opt.value), ncalls |-> 1]
             ELSE [returns |-> FALSE, ret |-> Pending, ncalls |-> 1]

(* One pass of the loop on what try_fill_bytes produced: whether the pass  *)
(* returns, with what, and the number of from_bytes calls it made.         *)
loop_pass(outcome) ==
    IF "error" \in DOMAIN outcome
    THEN [returns |-> TRUE, ret |-> Err(outcome.error), ncalls |-> 0]
    ELSE LET opt == OptionFrom(from_bytes(outcome.fill))
         IN  IF opt.some
             THEN [returns |-> TRUE, ret |-> Ok(opt.value), ncalls |-> 1]
             ELSE [returns |-> FALSE, ret |-> Pending, ncalls |-> 1]

TryFromRngLoop ==
    /\ op = "try_from_rng"
    /\ pc = "loop"
    /\ Len(rng) > 0
    /\ rng' = Tail(rng)
    /\ ndraws' = ndraws + 1
    /\ bytes' = IF "fill" \in DOMAIN Head(rng) THEN Head(rng).fill ELSE bytes
    /\ ret' = loop_pass(Head(rng)).ret
    /\ pc' = IF loop_pass(Head(rng)).returns THEN "done" ELSE "loop"
    /\ ncalls' = ncalls + loop_pass(Head(rng)).ncalls
    /\ UNCHANGED << elem, op, arg, invertVars, i, powVars >>

(***************************************************************************)
(* pow_vartime: the two nested while loops, one action per loop test.      *)
(***************************************************************************)
PowBegin ==
    /\ op = "idle"
    /\ \E x \in PowBases, exp \in Exponents :
        /\ op' = "pow_vartime"
        /\ pc' = "outer"
        /\ arg' = [self |-> x, exp |-> exp]
        /\ res' = ONE
        /\ i' = Len(exp)
        /\ UNCHANGED << elem, ret, invertVars, j, rngVars, ncalls >>

PowOuter ==
    /\ op = "pow_vartime"
    /\ pc = "outer"
    /\ IF i > 0
       THEN /\ i' = i - 1
            /\ j' = U64Bits
            /\ pc' = "inner"
            /\ ret' = ret
       ELSE /\ ret' = [fe |-> res]
            /\ pc' = "done"
            /\ UNCHANGED << i, j >>
    /\ UNCHANGED << elem, op, arg, res, invertVars, rngVars, ncalls >>

PowInner ==
    /\ op = "pow_vartime"
    /\ pc = "inner"
    /\ IF j > 0
       THEN /\ j' = j - 1
            /\ res' = pow_bit(res, arg.self, arg.exp[i + 1], j - 1)
            /\ pc' = pc
       ELSE /\ pc' = "outer"
            /\ UNCHANGED << j, res >>
    /\ UNCHANGED << elem, op, arg, ret, i, invertVars, rngVars, ncalls >>

(***************************************************************************)
(* impl_bernstein_yang_invert!, called with $a the words of a field        *)
(* element and $one the words of ONE.                                      *)
(***************************************************************************)
(* As InvertBegin, with the initial values of v and r exchanged. *)
InvertBegin_SwappedVR ==
    /\ op = "idle"
    /\ \E x \in Elements :
        /\ op' = "invert"
        /\ pc' = "loop"
        /\ arg' = [self |-> x]
        /\ a' = prim_from_mont(as_ref(x))
        /\ d' = 1
        /\ f' = msat
        /\ g' = [k \in 1 .. NLimbs + 1 |-> IF k <= NLimbs THEN a'[k] ELSE 0]
        /\ v' = as_ref(ONE)
        /\ r' = [k \in 1 .. NLimbs |-> 0]
        /\ i' = 0
        /\ UNCHANGED << elem, ret, ndivsteps, powVars, rngVars, ncalls >>

InvertBegin ==
    /\ op = "idle"
    /\ \E x \in Elements :
        /\ op' = "invert"
        /\ pc' = "loop"
        /\ arg' = [self |-> x]
        /\ a' = prim_from_mont(as_ref(x))
        /\ d' = 1
        /\ f' = msat
        /\ g' = [k \in 1 .. NLimbs + 1 |-> IF k <= NLimbs THEN a'[k] ELSE 0]
        /\ v' = [k \in 1 .. NLimbs |-> 0]
        /\ r' = as_ref(ONE)
        /\ i' = 0
        /\ UNCHANGED << elem, ret, ndivsteps, powVars, rngVars, ncalls >>

(* As InvertPair, leaving the loop as soon as g has reached zero. *)
InvertPair_EarlyExit ==
    /\ op = "invert"
    /\ pc = "loop"
    /\ i < ITERATIONS - (ITERATIONS % 2)
    /\ IF twos_complement_eval(g) = 0
       THEN /\ pc' = "select"
            /\ UNCHANGED << d, f, g, v, r, i, ndivsteps >>
       ELSE /\ LET out == divstep(d, f, g, v, r)
                   out2 == divstep(out[1], out[2], out[3], out[4], out[5])
               IN  /\ d' = out2[1]
                   /\ f' = out2[2]
                   /\ g' = out2[3]
                   /\ v' = out2[4]
                   /\ r' = out2[5]
            /\ i' = i + 2
            /\ ndivsteps' = ndivsteps + 2
            /\ pc' = pc
    /\ UNCHANGED << elem, op, arg, ret, a, powVars, rngVars, ncalls >>

InvertPair ==
    /\ op = "invert"
    /\ pc = "loop"
    /\ i < ITERATIONS - (ITERATIONS % 2)
    /\ LET out == divstep(d, f, g, v, r)
           out2 == divstep(out[1], out[2], out[3], out[4], out[5])
       IN  /\ d' = out2[1]
           /\ f' = out2[2]
           /\ g' = out2[3]
           /\ v' = out2[4]
           /\ r' = out2[5]
    /\ i' = i + 2
    /\ ndivsteps' = ndivsteps + 2
    /\ UNCHANGED << elem, op, pc, arg, ret, a, powVars, rngVars, ncalls >>

InvertTail ==
    /\ op = "invert"
    /\ pc = "loop"
    /\ ~(i < ITERATIONS - (ITERATIONS % 2))
    /\ IF ITERATIONS % 2 # 0
       THEN LET out == divstep(d, f, g, v, r)
            IN  /\ v' = out[4]
                /\ f' = out[2]
                /\ ndivsteps' = ndivsteps + 1
       ELSE UNCHANGED << v, f, ndivsteps >>
    /\ pc' = "select"
    /\ UNCHANGED << elem, op, arg, ret, a, d, g, r, i, powVars, rngVars, ncalls >>

(* As InvertFinish, without the sign-conditional negation of v. *)
InvertFinish_NoSelect ==
    /\ op = "invert"
    /\ pc = "select"
    /\ ret' = [fe |-> from_words(prim_mul(v, divstep_precomp))]
    /\ pc' = "done"
    /\ UNCHANGED << elem, op, arg, invertVars, i, powVars, rngVars, ncalls >>

InvertFinish ==
    /\ op = "invert"
    /\ pc = "select"
    /\ LET s == (f[Len(f)] \div Pow2(WordBits - 1)) % 2
           v1 == selectznz(s, v, prim_neg(v))
       IN  ret' = [fe |-> from_words(prim_mul(v1, divstep_precomp))]
    /\ pc' = "done"
    /\ UNCHANGED << elem, op, arg, invertVars, i, powVars, rngVars, ncalls >>

(* The operation has returned; its locals go out of scope. *)
Return ==
    /\ pc = "done"
    /\ op' = "idle"
    /\ pc' = "idle"
    /\ arg' = NoArg
    /\ ret' = Pending
    /\ a' = << >>
    /\ d' = 0
    /\ f' = << >>
    /\ g' = << >>
    /\ v' = << >>
    /\ r' = << >>
    /\ i' = 0
    /\ j' = 0
    /\ res' = 0
    /\ ndivsteps' = 0
    /\ rng' = << >>
    /\ bytes' = << >>
    /\ ndraws' = 0
    /\ ncalls' = 0
    /\ elem' = elem

(***************************************************************************)
(* A caller chaining operations: each action below is a public constructor *)
(* or a public operation applied to the held element elem; Keep ends the   *)
(* operation and makes the element it returned, if any, the held one.      *)
(* The second operand of a binary operation is the held element or one     *)
(* obtained from from_u64.                                                 *)
(***************************************************************************)
NewConstant ==
    /\ op = "idle"
    /\ \E c \in {"ZERO", "ONE"} :
        /\ op' = "constant"
        /\ pc' = "done"
        /\ arg' = [name |-> c]
        /\ ret' = [fe |-> IF c = "ZERO" THEN ZERO ELSE ONE]
        /\ UNCHANGED << elem, invertVars, i, powVars, rngVars, ncalls >>

NewFromU64 ==
    /\ op = "idle"
    /\ \E w \in PrimitiveInts :
        /\ op' = "from_u64"
        /\ pc' = "done"
        /\ arg' = [w |-> w]
        /\ ret' = [fe |-> from_u64(w)]
        /\ UNCHANGED << elem, invertVars, i, powVars, rngVars, ncalls >>

NewFromU32 ==
    /\ op = "idle"
    /\ \E n \in PrimitiveInts :
        /\ op' = "From<u32>"
        /\ pc' = "done"
        /\ arg' = [n |-> n]
        /\ ret' = [fe |-> From_u32(n)]
        /\ UNCHANGED << elem, invertVars, i, powVars, rngVars, ncalls >>

NewFromU64Trait ==
    /\ op = "idle"
    /\ \E n \in PrimitiveInts :
        /\ op' = "From<u64>"
        /\ pc' = "done"
        /\ arg' = [n |-> n]
        /\ ret' = [fe |-> From_u64(n)]
        /\ UNCHANGED << elem, invertVars, i, powVars, rngVars, ncalls >>

NewFromU128 ==
    /\ op = "idle"
    /\ \E n \in PrimitiveInts :
        /\ op' = "From<u128>"
        /\ pc' = "done"
        /\ arg' = [n |-> n]
        /\ ret' = [fe |-> From_u128(n)]
        /\ UNCHANGED << elem, invertVars, i, powVars, rngVars, ncalls >>

NewTryFromRng ==
    /\ op = "idle"
    /\ \E source \in HeldStreams :
        /\ op' = "try_from_rng"
        /\ pc' = "loop"
        /\ arg' = [rng |-> source]
        /\ rng' = source
        /\ bytes' = [k \in 1 .. FieldBytesSize |-> 0]
        /\ UNCHANGED << elem, ret, invertVars, i, powVars, ndraws, ncalls >>

HeldAdd ==
    /\ op = "idle"
    /\ \E rhs \in Operands \cup {elem} :
        /\ op' = "add"
        /\ pc' = "done"
        /\ arg' = [self |-> elem, rhs |-> rhs]
        /\ ret' = [fe |-> add(elem, rhs)]
        /\ UNCHANGED << elem, invertVars, i, powVars, rngVars, ncalls >>

HeldSub ==
    /\ op = "idle"
    /\ \E rhs \in Operands \cup {elem} :
        /\ op' = "sub"
        /\ pc' = "done"
        /\ arg' = [self |-> elem, rhs |-> rhs]
        /\ ret' = [fe |-> sub(elem, rhs)]
        /\ UNCHANGED << elem, invertVars, i, powVars, rngVars, ncalls >>

HeldMultiply ==
    /\ op = "idle"
    /\ \E rhs \in Operands \cup {elem} :
        /\ op' = "multiply"
        /\ pc' = "done"
        /\ arg' = [self |-> elem, rhs |-> rhs]
        /\ ret' = [fe |-> multiply(elem, rhs)]
        /\ UNCHANGED << elem, invertVars, i, powVars, rngVars, ncalls >>

HeldNeg ==
    /\ op = "idle"
    /\ op' = "neg"
    /\ pc' = "done"
    /\ arg' = [self |-> elem]
    /\ ret' = [fe |-> neg(elem)]
    /\ UNCHANGED << elem, invertVars, i, powVars, rngVars, ncalls >>

HeldSquare ==
    /\ op = "idle"
    /\ op' = "square"
    /\ pc' = "done"
    /\ arg' = [self |-> elem]
    /\ ret' = [fe |-> square(elem)]
    /\ UNCHANGED << elem, invertVars, i, powVars, rngVars, ncalls >>

HeldDouble ==
    /\ op = "idle"
    /\ op' = "double"
    /\ pc' = "done"
    /\ arg' = [self |-> elem]
    /\ ret' = [fe |-> double(elem)]
    /\ UNCHANGED << elem, invertVars, i, powVars, rngVars, ncalls >>

HeldConditionalSelect ==
    /\ op = "idle"
    /\ \E y \in Operands, choice \in Choices :
        /\ op' = "conditional_select"
        /\ pc' = "done"
        /\ arg' = [a |-> elem, b |-> y, choice |-> choice]
        /\ ret' = [fe |-> conditional_select(elem, y, choice)]
        /\ UNCHANGED << elem, invertVars, i, powVars, rngVars, ncalls >>

HeldSum ==
    /\ op = "idle"
    /\ \E iter \in HeldSeqs(elem) :
        /\ op' = "sum"
        /\ pc' = "done"
        /\ arg' = [iter |-> iter]
        /\ ret' = [fe |-> Sum_sum(iter)]
        /\ UNCHANGED << elem, invertVars, i, powVars, rngVars, ncalls >>

HeldProduct ==
    /\ op = "idle"
    /\ \E iter \in HeldSeqs(elem) :
        /\ op' = "product"
        /\ pc' = "done"
        /\ arg' = [iter |-> iter]
        /\ ret' = [fe |-> Product_product(iter)]
        /\ UNCHANGED << elem, invertVars, i, powVars, rngVars, ncalls >>

(* pow_vartime on the held element; PowOuter and PowInner run its loops. *)
HeldPowBegin ==
    /\ op = "idle"
    /\ \E exp \in HeldExponents :
        /\ op' = "pow_vartime"
        /\ pc' = "outer"
        /\ arg' = [self |-> elem, exp |-> exp]
        /\ res' = ONE
        /\ i' = Len(exp)
        /\ UNCHANGED << elem, ret, invertVars, j, rngVars, ncalls >>

(* The element a return value hands to the caller: the element itself, the *)
(* value of a CtOption that is some, or the value of an Ok.                *)
Returned(r0) ==
    IF "fe" \in DOMAIN r0 THEN {r0.fe}
    ELSE IF "ct" \in DOMAIN r0 THEN (IF r0.ct.is_some THEN {r0.ct.value} ELSE {})
    ELSE IF "ok" \in DOMAIN r0 THEN {r0.ok}
    ELSE {}

Keep ==
    /\ pc = "done"
    /\ elem' = IF Returned(ret) = {} THEN elem ELSE CHOOSE e \in Returned(ret) : TRUE
    /\ op' = "idle"
    /\ pc' = "idle"
    /\ arg' = NoArg
    /\ ret' = Pending
    /\ a' = << >>
    /\ d' = 0
    /\ f' = << >>
    /\ g' = << >>
    /\ v' = << >>
    /\ r' = << >>
    /\ i' = 0
    /\ j' = 0
    /\ res' = 0
    /\ ndivsteps' = 0
    /\ rng' = << >>
    /\ bytes' = << >>
    /\ ndraws' = 0
    /\ ncalls' = 0

Next ==
    \/ CallFromUint
    \/ CallFromBytes
    \/ CallToBytes
    \/ CallSum
    \/ CallSumRef
    \/ CallProduct
    \/ CallProductRef
    \/ FromSlice
    \/ PowBegin
    \/ PowOuter
    \/ PowInner
    \/ TryFromRngBegin
    \/ TryFromRngLoop
    \/ InvertBegin
    \/ InvertPair
    \/ InvertTail
    \/ InvertFinish
    \/ Return

Spec == Init /\ [][Next]_vars

NextHeld ==
    \/ NewConstant
    \/ CallFromUint
    \/ CallFromBytes
    \/ FromSlice
    \/ NewFromU64
    \/ NewFromU32
    \/ NewFromU64Trait
    \/ NewFromU128
    \/ NewTryFromRng
    \/ TryFromRngLoop
    \/ HeldAdd
    \/ HeldSub
    \/ HeldMultiply
    \/ HeldNeg
    \/ HeldSquare
    \/ HeldDouble
    \/ HeldConditionalSelect
    \/ HeldSum
    \/ HeldProduct
    \/ HeldPowBegin
    \/ PowOuter
    \/ PowInner
    \/ Keep

SpecHeld == Init /\ [][NextHeld]_vars

(***************************************************************************)
(* Properties.                                                             *)
(***************************************************************************)

(* C1: for every nonzero field element x, the Bernstein-Yang inversion     *)
(* returns an element inv with x * inv == ONE (and, on canonical values,   *)
(* x * inv = 1 modulo the modulus).                                        *)
C1_InvertIsInverse ==
    (op = "invert" /\ pc = "done" /\ arg.self # ZERO) =>
        /\ Mul_mul(arg.self, ret.fe) = ONE
        /\ (to_canonical(arg.self) * to_canonical(ret.fe)) % Modulus = 1
        /\ ret.fe \in Elements

C1_Witness ==
    /\ op = "invert"
    /\ pc = "done"
    /\ to_canonical(arg.self) = 3
    /\ Mul_mul(arg.self, ret.fe) = ONE

(* C2: one inversion executes exactly ITERATIONS divsteps whatever its     *)
(* input: inside the loop the number of divsteps made is the loop counter  *)
(* i, the loop is left only with i = ITERATIONS - (ITERATIONS mod 2), and  *)
(* one more divstep follows exactly when ITERATIONS is odd.                *)
C2_FixedDivstepCount ==
    op = "invert" =>
        /\ pc = "loop" => (ndivsteps = i /\ i % 2 = 0 /\ i <= ITERATIONS - (ITERATIONS % 2))
        /\ pc \in {"select", "done"} =>
                /\ i = ITERATIONS - (ITERATIONS % 2)
                /\ ndivsteps = i + (ITERATIONS % 2)
                /\ ndivsteps = (49 * ModulusBits + 57) \div 17

C2_Witness ==
    /\ op = "invert"
    /\ pc = "done"
    /\ to_canonical(arg.self) = Modulus - 1
    /\ ndivsteps = ITERATIONS
    /\ ITERATIONS % 2 = 1

(* C3: inverting the zero element yields the zero element. *)
C3_InvertZeroIsZero ==
    (op = "invert" /\ pc = "done" /\ arg.self = ZERO) => ret.fe = ZERO

C3_Witness ==
    /\ op = "invert"
    /\ pc = "done"
    /\ arg.self = ZERO
    /\ twos_complement_eval(g) = 0
    /\ ret.fe = ZERO

(* C4: for every field element x, from_bytes(to_bytes(x)) is Some(x); the  *)
(* bytes are the fixed-width big-endian encoding of the canonical value.   *)
RECURSIVE BigEndianFrom(_, _, _)
BigEndianFrom(bs, k, acc) ==
    IF k > Len(bs) THEN acc ELSE BigEndianFrom(bs, k + 1, acc * ByteRadix + bs[k])

BigEndianValue(bs) == BigEndianFrom(bs, 1, 0)

C4_BytesRoundTrip ==
    (op = "to_bytes" /\ pc = "done") =>
        /\ Len(ret.bytes) = FieldBytesSize
        /\ BigEndianValue(ret.bytes) = to_canonical(arg.self)
        /\ OptionFrom(from_bytes(ret.bytes)) = Some(arg.self)

C4_Witness ==
    /\ op = "to_bytes"
    /\ pc = "done"
    /\ to_canonical(arg.self) = Modulus - 1
    /\ arg.self # Modulus - 1
    /\ OptionFrom(from_bytes(ret.bytes)) = Some(arg.self)

(* C5: from_uint(u), and from_bytes on the bytes encoding u, is present    *)
(* if and only if u < modulus; otherwise the outcome is "none", a value;   *)
(* a present value is the Montgomery form of u.                            *)
RangeChecked(u, ct) ==
    /\ DOMAIN ct = {"value", "is_some"}
    /\ OptionFrom(ct).some <=> u < Modulus
    /\ u >= Modulus => OptionFrom(ct) = None
    /\ u < Modulus =>
            /\ OptionFrom(ct) = Some((u * UintLimit) % Modulus)
            /\ to_canonical(OptionFrom(ct).value) = u

C5_RangeCheck ==
    /\ (op = "from_uint" /\ pc = "done") => RangeChecked(arg.uint, ret.ct)
    /\ (op = "from_bytes" /\ pc = "done") => RangeChecked(BigEndianValue(arg.repr), ret.ct)

C5_Witness ==
    /\ op = "from_bytes"
    /\ pc = "done"
    /\ BigEndianValue(arg.repr) = Modulus
    /\ OptionFrom(ret.ct) = None

(* C6: from_slice returns an error on a slice of the wrong length without  *)
(* calling from_bytes; on a slice of the right length it returns Ok(e)     *)
(* when from_bytes gives Some(e) and an error when from_bytes gives none.  *)
C6_FromSlice ==
    (op = "from_slice" /\ pc = "done") =>
        /\ Len(arg.slice) # FieldBytesSize => (ret = Error /\ ncalls = 0)
        /\ Len(arg.slice) = FieldBytesSize =>
                LET opt == OptionFrom(from_bytes(arg.slice))
                IN  /\ ncalls = 1
                    /\ opt.some => ret = Ok(opt.value)
                    /\ ~opt.some => ret = Error

C6_Witness ==
    /\ op = "from_slice"
    /\ pc = "done"
    /\ Len(arg.slice) = FieldBytesSize + 1
    /\ ret = Error
    /\ ncalls = 0

(* C7: try_from_rng returns Ok only on the first in-range draw: the draws  *)
(* before it were all out of range, the element is the one decoded from    *)
(* that draw, and nothing more was drawn (k rejected draws, k + 1 draws).  *)
IsFill(outcome) == "fill" \in DOMAIN outcome

OutOfRange(outcome) == IsFill(outcome) /\ BigEndianValue(outcome.fill) >= Modulus

InRange(outcome) == IsFill(outcome) /\ BigEndianValue(outcome.fill) < Modulus

C7_RejectionSampling ==
    op = "try_from_rng" =>
        /\ ndraws <= Len(arg.rng)
        /\ rng = SubSeq(arg.rng, ndraws + 1, Len(arg.rng))
        /\ pc = "loop" => \A k \in 1 .. ndraws : OutOfRange(arg.rng[k])
        /\ (ndraws > 0 /\ InRange(arg.rng[ndraws])) => (pc = "done" /\ "ok" \in DOMAIN ret)
        /\ (pc = "done" /\ "ok" \in DOMAIN ret) =>
                /\ ndraws >= 1
                /\ \A k \in 1 .. (ndraws - 1) : OutOfRange(arg.rng[k])
                /\ InRange(arg.rng[ndraws])
                /\ ret = Ok((BigEndianValue(arg.rng[ndraws].fill) * UintLimit) % Modulus)
                /\ to_canonical(ret.ok) = BigEndianValue(arg.rng[ndraws].fill)
                /\ bytes = arg.rng[ndraws].fill

C7_Witness ==
    /\ op = "try_from_rng"
    /\ pc = "done"
    /\ Len(arg.rng) = 2
    /\ OutOfRange(arg.rng[1])
    /\ InRange(arg.rng[2])
    /\ ndraws = 2
    /\ ret = Ok(from_uint_unchecked(BigEndianValue(arg.rng[2].fill)))

(* C8: when the source fails on a draw, try_from_rng returns that error    *)
(* at once, with no element and no further draw or decode; it returns an   *)
(* error in no other case.                                                 *)
C8_RngFailure ==
    op = "try_from_rng" =>
        /\ \A k \in 1 .. ndraws : ~IsFill(arg.rng[k]) => k = ndraws
        /\ (ndraws > 0 /\ ~IsFill(arg.rng[ndraws])) =>
                /\ pc = "done"
                /\ ret = Err(arg.rng[ndraws].error)
                /\ ncalls = ndraws - 1
                /\ rng = SubSeq(arg.rng, ndraws + 1, Len(arg.rng))
        /\ (pc = "done" /\ "err" \in DOMAIN ret) => (ndraws > 0 /\ ~IsFill(arg.rng[ndraws]))
        /\ pc = "done" => DOMAIN ret \in {{"ok"}, {"err"}}

C8_Witness ==
    /\ op = "try_from_rng"
    /\ pc = "done"
    /\ Len(arg.rng) = 3
    /\ OutOfRange(arg.rng[1])
    /\ ~IsFill(arg.rng[2])
    /\ ndraws = 2
    /\ ret = Err(arg.rng[2].error)

(* C9: pow_vartime(x, exp) is x raised to the little-endian integer e of   *)
(* exp: the accumulator starts at ONE and, going from the top bit of the   *)
(* last word to bit 0 of the first, holds x raised to the bits read so     *)
(* far; [0] gives ONE, [1] gives x, [2] gives x * x, the empty sequence    *)
(* gives ONE, and high zero words change nothing.                          *)
(*                                                                         *)
(* The reference works on canonical residues: e is the sum of 2^p over     *)
(* the set positions p of its bits, and c^e the product of c^(2^p).        *)
BitPositions(exp) ==
    {U64Bits * (k - 1) + b : k \in 1 .. Len(exp), b \in 0 .. (U64Bits - 1)}

SetBits(exp) ==
    {p \in BitPositions(exp) : (p % U64Bits) \in exp[(p \div U64Bits) + 1]}

(* Squaring on canonical residues, and its iterates: SqK[c] = c^(2^K). *)
Sq1 == [c \in Residues |-> (c * c) % Modulus]
Sq2 == [c \in Residues |-> Sq1[Sq1[c]]]
Sq4 == [c \in Residues |-> Sq2[Sq2[c]]]
Sq8 == [c \in Residues |-> Sq4[Sq4[c]]]
Sq16 == [c \in Residues |-> Sq8[Sq8[c]]]
Sq32 == [c \in Residues |-> Sq16[Sq16[c]]]
Sq64 == [c \in Residues |-> Sq32[Sq32[c]]]
Sq128 == [c \in Residues |-> Sq64[Sq64[c]]]
Sq256 == [c \in Residues |-> Sq128[Sq128[c]]]

Bit(n, k) == (n \div (2 ^ k)) % 2 = 1

(* c^(2^n) modulo the modulus for n < 512, from the binary digits of n. *)
ModExp2(c, n) ==
    LET c0 == IF Bit(n, 0) THEN Sq1[c] ELSE c
        c1 == IF Bit(n, 1) THEN Sq2[c0] ELSE c0
        c2 == IF Bit(n, 2) THEN Sq4[c1] ELSE c1
        c3 == IF Bit(n, 3) THEN Sq8[c2] ELSE c2
        c4 == IF Bit(n, 4) THEN Sq16[c3] ELSE c3
        c5 == IF Bit(n, 5) THEN Sq32[c4] ELSE c4
        c6 == IF Bit(n, 6) THEN Sq64[c5] ELSE c5
        c7 == IF Bit(n, 7) THEN Sq128[c6] ELSE c6
    IN  IF Bit(n, 8) THEN Sq256[c7] ELSE c7

RECURSIVE ModProduct(_, _, _)
ModProduct(c, positions, base) ==
    IF positions = {} THEN 1
    ELSE LET p == CHOOSE q \in positions : TRUE
         IN  (ModExp2(c, p - base) * ModProduct(c, positions \ {p}, base)) % Modulus

(* c raised to the bits of exp at positions >= base, shifted down by base. *)
RefPowFrom(c, exp, base) ==
    ModProduct(c, {p \in SetBits(exp) : p >= base}, base)

RefPow(c, exp) == RefPowFrom(c, exp, 0)

RECURSIVE StripHighZeros(_)
StripHighZeros(exp) ==
    IF Len(exp) > 0 /\ exp[Len(exp)] = {}
    THEN StripHighZeros(SubSeq(exp, 1, Len(exp) - 1))
    ELSE exp

C9_PowVartime ==
    op = "pow_vartime" =>
        LET x == arg.self
            c == to_canonical(arg.self)
            exp == arg.exp
        IN  /\ pc = "outer" => res = from_uint_unchecked(RefPowFrom(c, exp, U64Bits * i))
            /\ pc = "inner" => res = from_uint_unchecked(RefPowFrom(c, exp, U64Bits * i + j))
            /\ pc = "done" =>
                    /\ ret.fe = from_uint_unchecked(RefPow(c, exp))
                    /\ ret.fe = from_uint_unchecked(RefPow(c, StripHighZeros(exp)))
                    /\ exp = << >> => ret.fe = ONE
                    /\ exp = << {} >> => ret.fe = ONE
                    /\ exp = << {0} >> => ret.fe = x
                    /\ exp = << {1} >> => ret.fe = Mul_mul(x, x)
                    /\ exp = << {0}, {} >> => ret.fe = x

C9_Witness ==
    /\ op = "pow_vartime"
    /\ pc = "done"
    /\ arg.exp = << {1}, {0} >>
    /\ to_canonical(arg.self) = 3
    /\ to_canonical(ret.fe) = (9 * ModExp2(3, U64Bits)) % Modulus
    /\ to_canonical(ret.fe) # 9

(* C10: the sum of a sequence is its fold with + from ZERO and the product *)
(* its fold with * from ONE (ZERO and ONE on the empty sequence), on       *)
(* canonical values the sum and the product modulo the modulus; summing    *)
(* or multiplying references gives the same as on the elements referred to.*)
RECURSIVE FoldLeft(_, _, _, _)
FoldLeft(fn, acc, xs, k) ==
    IF k > Len(xs) THEN acc
    ELSE FoldLeft(fn, IF fn = "+" THEN Add_add(acc, xs[k]) ELSE Mul_mul(acc, xs[k]), xs, k + 1)

RECURSIVE CanonicalFold(_, _, _, _)
CanonicalFold(fn, acc, xs, k) ==
    IF k > Len(xs) THEN acc
    ELSE CanonicalFold(fn,
                       IF fn = "+" THEN (acc + to_canonical(xs[k])) % Modulus
                                   ELSE (acc * to_canonical(xs[k])) % Modulus,
                       xs, k + 1)

Referents(refs) == [k \in 1 .. Len(refs) |-> refs[k].deref]

IsSumOf(fe, xs) ==
    /\ fe = FoldLeft("+", ZERO, xs, 1)
    /\ to_canonical(fe) = CanonicalFold("+", 0, xs, 1)
    /\ xs = << >> => fe = ZERO

IsProductOf(fe, xs) ==
    /\ fe = FoldLeft("*", ONE, xs, 1)
    /\ to_canonical(fe) = CanonicalFold("*", 1, xs, 1)
    /\ xs = << >> => fe = ONE

C10_SumProduct ==
    pc = "done" =>
        /\ op = "sum" => IsSumOf(ret.fe, arg.iter)
        /\ op = "sum_ref" => IsSumOf(ret.fe, Referents(arg.iter))
        /\ op = "product" => IsProductOf(ret.fe, arg.iter)
        /\ op = "product_ref" => IsProductOf(ret.fe, Referents(arg.iter))

C10_Witness ==
    /\ op = "sum_ref"
    /\ pc = "done"
    /\ Len(arg.iter) = 0
    /\ ret.fe = ZERO
    /\ ret.fe # ONE

(* C11: every field element reachable through the public interface holds   *)
(* a valid residue.  After any sequence of public constructions (ZERO,     *)
(* ONE, from_bytes, from_uint, from_slice, from_u64, From<u32>, From<u64>, *)
(* From<u128>, try_from_rng) and operations (add, sub, multiply, neg,      *)
(* square, double, pow_vartime, conditional_select, sum, product), the     *)
(* held element, every element an operation returns and the accumulator of *)
(* pow_vartime are Montgomery forms of residues and their to_canonical is  *)
(* strictly less than the modulus - also for from_u64 and From<u32>,       *)
(* From<u64>, From<u128> given an integer at or above the modulus.         *)
ValidResidue(x) ==
    /\ x \in Elements
    /\ to_canonical(x) < Modulus

====
